---- MODULE Spec2Model ----
(***************************************************************************)
(* The OCR camera screen: the Cam component (app/Camera.tsx) and the       *)
(* Vision API client (app/services/visionApi.ts).                          *)
(*                                                                         *)
(* Conventions                                                             *)
(*   - JavaScript strings are TLA+ strings; String.includes is Includes.   *)
(*   - null / undefined of an object is Null (the empty tuple); an         *)
(*     optional property of a JSON object is a field that is or is not in  *)
(*     the DOMAIN of the record.                                           *)
(*   - Every number of a Word (x, y, width, height, confidence) is held in *)
(*     hundredths, so that the fractions of getDemoText (0.1, 0.35, ...)   *)
(*     and the confidences (0.9, 0.95, ...) are exact integers.            *)
(*   - The component is modelled from the point where the camera           *)
(*     permission is granted (the render at Camera.tsx:237).               *)
(*   - event, thrown, result and fetchCalls are history variables: what    *)
(*     the last step did, what the last detectText call threw or parsed,   *)
(*     and how many times that call invoked fetch.                         *)
(***************************************************************************)
EXTENDS Integers, Sequences, FiniteSets, TLC

VARIABLES
    apiKey,             \* GOOGLE_CLOUD_API_KEY (module constant, "" when unset)
    screenWidth,        \* Dimensions.get('window').width
    screenHeight,       \* Dimensions.get('window').height
    extractedText,      \* useState<ExtractedText | null>
    isAnalyzing,        \* useState(false)
    capturedImageUri,   \* useState<string | null>, NullUri when null
    analysisComplete,   \* useState(false)
    viewMode,           \* useState<'image' | 'text'>
    cycles,             \* the captureAndAnalyze calls suspended at an await
    alert,              \* the Alert dialog on screen, Null when none
    fetchCalls,         \* fetch calls issued by the latest detectText call
    thrown,             \* the error the last step saw detectText throw
    result,             \* the provider JSON the last step saw detectText parse
    event               \* what the last step did

vars == << apiKey, screenWidth, screenHeight, extractedText, isAnalyzing,
           capturedImageUri, analysisComplete, viewMode, cycles, alert,
           fetchCalls, thrown, result, event >>

----------------------------------------------------------------------------
(* Bounds of the model *)

MaxAnnotations == 3     \* longest textAnnotations list a response carries
MaxInFlight == 2        \* captureAndAnalyze calls the model lets overlap
MaxVertices == 4        \* longest bounding polygon given to the mapper alone
MaxDim == 3             \* largest target dimension given to the functions alone

Null == << >>
NullUri == ""

ApiKeys == { "", "AIzaSyD-demo" }
ScreenWidths == { 320, 640 }
ScreenHeights == { 480 }
PhotoUris == { "file:///photo.jpg" }
Statuses == { 200, 403, 500 }
Bodies == { "", "Forbidden", "API not configured for project" }
ErrorCodes == { 7, 403 }
ProviderMessages == { "", "Quota exceeded", "Billing not configured" }
Descriptions == { "ALL TEXT", "Hello" }
FullTexts == { "", "ALL TEXT\n" }

V(x, y) == [x |-> x, y |-> y]

\* boundingPoly.vertices values: none, a triangle, a rectangle, a rectangle
\* with omitted coordinates, a rectangle left of and above the origin.
Polygons ==
    { << >>,
      << V(0, 0), V(10, 0), V(10, 5) >>,
      << V(0, 0), V(10, 0), V(10, 5), V(0, 5) >>,
      << [y |-> 2], [x |-> 7], V(7, 9), [x |-> 3, y |-> 9] >>,
      << V(-4, -2), V(6, -2), V(6, 3), V(-4, 3) >> }

----------------------------------------------------------------------------
(* Helpers for JavaScript values *)

Includes(s, p) ==
    \E i \in 1..(Len(s) - Len(p) + 1) : SubSeq(s, i, i + Len(p) - 1) = p

Has(obj, field) == field \in DOMAIN obj

Hundredths(n) == n * 100

RECURSIVE SeqMin(_)
SeqMin(s) ==
    IF Len(s) = 1 THEN s[1]
    ELSE LET m == SeqMin(Tail(s)) IN IF s[1] < m THEN s[1] ELSE m

RECURSIVE SeqMax(_)
SeqMax(s) ==
    IF Len(s) = 1 THEN s[1]
    ELSE LET m == SeqMax(Tail(s)) IN IF s[1] > m THEN s[1] ELSE m

SeqsUpTo(S, n) == UNION { [1..k -> S] : k \in 0..n }

----------------------------------------------------------------------------
(* app/services/visionApi.ts *)

Coord(v, axis) == IF Has(v, axis) THEN v[axis] ELSE 0      \* v.x || 0

Xs(vertices) == [i \in 1..Len(vertices) |-> Coord(vertices[i], "x")]
Ys(vertices) == [i \in 1..Len(vertices) |-> Coord(vertices[i], "y")]

convertToScreenCoordinatesFrom3(vertices, sw, sh) ==
    IF Len(vertices) < 3 THEN Null
    ELSE [ x |-> SeqMin(Xs(vertices)),
           y |-> SeqMin(Ys(vertices)),
           width |-> SeqMax(Xs(vertices)) - SeqMin(Xs(vertices)),
           height |-> SeqMax(Ys(vertices)) - SeqMin(Ys(vertices)) ]

\* screenWidth and screenHeight are only logged.
convertToScreenCoordinates(vertices, sw, sh) ==
    IF Len(vertices) < 4 THEN Null
    ELSE [ x |-> SeqMin(Xs(vertices)),
           y |-> SeqMin(Ys(vertices)),
           width |-> SeqMax(Xs(vertices)) - SeqMin(Xs(vertices)),
           height |-> SeqMax(Ys(vertices)) - SeqMin(Ys(vertices)) ]

\* coords?.f || 0
OrZero(coords, f) == IF coords = Null THEN 0 ELSE coords[f]

DefaultConfidence == 90

\* `word-${index}` with the 0-based index of Array.map
WordId(index) == "word-" \o ToString(index)

MakeWord(annotation, index, sw, sh) ==
    LET coords == convertToScreenCoordinates(annotation.boundingPoly.vertices, sw, sh)
    IN  [ id |-> WordId(index),
          text |-> annotation.description,
          confidence |-> DefaultConfidence,
          x |-> Hundredths(OrZero(coords, "x")),
          y |-> Hundredths(OrZero(coords, "y")),
          width |-> Hundredths(OrZero(coords, "width")),
          height |-> Hundredths(OrZero(coords, "height")) ]

\* result.responses[0]?.textAnnotations || []
TextAnnotationsOf(r) == IF Has(r, "textAnnotations") THEN r.textAnnotations ELSE << >>

WordAnnotationsUnsliced(textAnnotations) == textAnnotations

\* textAnnotations.slice(1)
WordAnnotations(textAnnotations) ==
    IF textAnnotations = << >> THEN << >> ELSE Tail(textAnnotations)

WordsOmittingUnmapped(r, sw, sh) ==
    LET wordAnnotations == WordAnnotations(TextAnnotationsOf(r))
        mapped == SelectSeq(wordAnnotations,
                            LAMBDA a : Len(a.boundingPoly.vertices) >= 4)
    IN  [ i \in 1..Len(mapped) |-> MakeWord(mapped[i], i - 1, sw, sh) ]

Words(r, sw, sh) ==
    LET wordAnnotations == WordAnnotations(TextAnnotationsOf(r))
    IN  [ i \in 1..Len(wordAnnotations) |-> MakeWord(wordAnnotations[i], i - 1, sw, sh) ]

FullTextNoFallback(r) ==
    IF Has(r, "fullTextAnnotation") THEN r.fullTextAnnotation.text ELSE ""

\* fullTextAnnotation?.text || textAnnotations[0]?.description || ''
FullText(r) ==
    LET textAnnotations == TextAnnotationsOf(r)
    IN  IF Has(r, "fullTextAnnotation") /\ r.fullTextAnnotation.text # ""
        THEN r.fullTextAnnotation.text
        ELSE IF textAnnotations # << >> /\ textAnnotations[1].description # ""
             THEN textAnnotations[1].description
             ELSE ""

\* The errors detectText throws.  kind names the throw site in the terms of
\* the error taxonomy; the Error object itself carries only the message.
NotConfiguredError ==
    [ kind |-> "ConfigurationMissing",
      message |-> "Google Cloud API key not configured. Please set EXPO_PUBLIC_GOOGLE_CLOUD_API_KEY in your environment." ]

NetworkError ==
    [ kind |-> "TransportFailure", message |-> "Network request failed" ]

RequestFailedError(status, errorText) ==
    [ kind |-> "TransportFailure",
      message |-> "Vision API request failed: " \o ToString(status) \o " - " \o errorText ]

JsonParseError ==
    [ kind |-> "Other", message |-> "JSON Parse error: Unexpected token" ]

VisionApiError(error) ==
    [ kind |-> "ProviderError", message |-> "Vision API error: " \o error.message ]

ApiKeyMissingNever(key) == FALSE

\* !GOOGLE_CLOUD_API_KEY
ApiKeyMissing(key) == key = ""

\* response.ok
Ok(status) == status \in 200..299

\* detectText from the parsed body on: the error check, then the result.
ParseResult(r, sw, sh) ==
    IF Has(r, "error")
    THEN [ ok |-> FALSE, error |-> VisionApiError(r.error) ]
    ELSE [ ok |-> TRUE, value |-> [ fullText |-> FullText(r), words |-> Words(r, sw, sh) ] ]

\* The bullet character of the source's list items is written *.
DemoFullText ==
    "Welcome to OCR Demo!\n\nThis is a sample text that would be extracted from an image using Google Cloud Vision API.\n\nSome example text might include:\n* Business cards\n* Street signs\n* Documents\n* Handwritten notes\n* Book pages\n\nThe text detection feature can recognize text in many languages and formats."

getDemoTextFixedMargin(sw, sh) ==
    [ fullText |-> DemoFullText,
      words |->
        << [ id |-> "word-1", text |-> "Welcome", confidence |-> 95,
             x |-> 1000 + sw * 10, y |-> sh * 20, width |-> sw * 20, height |-> sh * 5 ],
           [ id |-> "word-2", text |-> "OCR", confidence |-> 92,
             x |-> 1000 + sw * 35, y |-> sh * 20, width |-> sw * 10, height |-> sh * 5 ],
           [ id |-> "word-3", text |-> "Demo!", confidence |-> 88,
             x |-> 1000 + sw * 50, y |-> sh * 20, width |-> sw * 15, height |-> sh * 5 ] >> ]

\* screenWidth * 0.1 in hundredths is screenWidth * 10, and so on.
getDemoText(sw, sh) ==
    [ fullText |-> DemoFullText,
      words |->
        << [ id |-> "word-1", text |-> "Welcome", confidence |-> 95,
             x |-> sw * 10, y |-> sh * 20, width |-> sw * 20, height |-> sh * 5 ],
           [ id |-> "word-2", text |-> "OCR", confidence |-> 92,
             x |-> sw * 35, y |-> sh * 20, width |-> sw * 10, height |-> sh * 5 ],
           [ id |-> "word-3", text |-> "Demo!", confidence |-> 88,
             x |-> sw * 50, y |-> sh * 20, width |-> sw * 15, height |-> sh * 5 ] >> ]

----------------------------------------------------------------------------
(* The provider's JSON bodies: responses[0] *)

Annotations ==
    { [ description |-> d, boundingPoly |-> [ vertices |-> p ] ] :
        d \in Descriptions, p \in Polygons }

AnnotationLists == SeqsUpTo(Annotations, MaxAnnotations)

ErrorObjects == { [ code |-> c, message |-> m ] : c \in ErrorCodes, m \in ProviderMessages }

FullTextAnnotations == { [ text |-> t ] : t \in FullTexts }

\* `responses: []` behaves as the empty object, through the ?. of every read.
Responses ==
    { << >> }
    \cup { [ textAnnotations |-> ta ] : ta \in AnnotationLists }
    \cup { [ fullTextAnnotation |-> ft ] : ft \in FullTextAnnotations }
    \cup { [ textAnnotations |-> ta, fullTextAnnotation |-> ft ] :
             ta \in AnnotationLists, ft \in FullTextAnnotations }
    \cup { [ error |-> e ] : e \in ErrorObjects }
    \cup { [ error |-> e, fullTextAnnotation |-> ft ] :
             e \in ErrorObjects, ft \in FullTextAnnotations }

\* Vertices for the mapper alone: both coordinates, one omitted, none.
VertexChoices == { V(-1, 2), V(3, -2), [x |-> 2], [y |-> 1], << >> }

VertexLists == SeqsUpTo(VertexChoices, MaxVertices)

\* Bodies of one full-text annotation and one word annotation.
MapperResponses ==
    { [ textAnnotations |->
          << [ description |-> "ALL TEXT", boundingPoly |-> [ vertices |-> << >> ] ],
             [ description |-> "Hello", boundingPoly |-> [ vertices |-> vs ] ] >> ] :
        vs \in VertexLists }

----------------------------------------------------------------------------
(* app/Camera.tsx: what the render shows *)

\* capturedImageUri && analysisComplete ? <Image> or text : <CameraView ref>
CameraMounted == ~(capturedImageUri # NullUri /\ analysisComplete)

\* analysisComplete ? close button : capture button
CaptureControlShown == ~analysisComplete
ResetControlShown == analysisComplete

CaptureControlAlwaysEnabled == TRUE

\* disabled={isAnalyzing} and the handler's if (!isAnalyzing)
CaptureControlEnabled == ~isAnalyzing

\* An Alert dialog is modal: nothing under it takes a press.
NoDialog == alert = Null

SetupAlert ==
    [ title |-> "Google Cloud Vision API Setup Required",
      message |-> "To use real OCR text extraction, follow the setup instructions in VISION_API_SETUP.md\n\nShowing demo text for now..." ]

ErrorAlert(apiError) ==
    [ title |-> "Vision API Error",
      message |-> apiError.message \o "\n\nShowing demo text for now..." ]

ProcessFailedAlert ==
    [ title |-> "Error", message |-> "Failed to process image for OCR. Please try again." ]

CaptureFailedAlert ==
    [ title |-> "Error", message |-> "Failed to capture photo. Please try again." ]

----------------------------------------------------------------------------
(* app/Camera.tsx: the handlers *)

static == << apiKey, screenWidth, screenHeight >>

At(where, status) == [ at |-> where, status |-> status ]

Without(i) == [ j \in 1..(Len(cycles) - 1) |-> IF j < i THEN cycles[j] ELSE cycles[j + 1] ]

Moved(i, c) == [ cycles EXCEPT ![i] = c ]

Init ==
    /\ apiKey \in ApiKeys
    /\ screenWidth \in ScreenWidths
    /\ screenHeight \in ScreenHeights
    /\ extractedText = Null
    /\ isAnalyzing = FALSE
    /\ capturedImageUri = NullUri
    /\ analysisComplete = FALSE
    /\ viewMode = "image"
    /\ cycles = << >>
    /\ alert = Null
    /\ fetchCalls = 0
    /\ thrown = Null
    /\ result = Null
    /\ event = "mount"

CloseAnalysisKeepsImage ==
    /\ extractedText' = Null
    /\ analysisComplete' = FALSE
    /\ viewMode' = "image"
    /\ UNCHANGED capturedImageUri

closeAnalysis ==
    /\ capturedImageUri' = NullUri
    /\ extractedText' = Null
    /\ analysisComplete' = FALSE
    /\ viewMode' = "image"

\* The close button ("Take Another Photo").
PressClose ==
    /\ NoDialog
    /\ ResetControlShown
    /\ closeAnalysis
    /\ thrown' = Null /\ result' = Null /\ event' = "close"
    /\ UNCHANGED << static, isAnalyzing, cycles, alert, fetchCalls >>

PressToggleAnytime(mode) ==
    /\ NoDialog
    /\ viewMode' = mode
    /\ thrown' = Null /\ result' = Null /\ event' = "toggle"
    /\ UNCHANGED << static, extractedText, isAnalyzing, capturedImageUri,
                    analysisComplete, cycles, alert, fetchCalls >>

\* The two view toggle buttons, rendered when analysisComplete.
PressToggle(mode) ==
    /\ NoDialog
    /\ analysisComplete
    /\ viewMode' = mode
    /\ thrown' = Null /\ result' = Null /\ event' = "toggle"
    /\ UNCHANGED << static, extractedText, isAnalyzing, capturedImageUri,
                    analysisComplete, cycles, alert, fetchCalls >>

\* The OK button of the dialog.
DismissAlert ==
    /\ alert # Null
    /\ alert' = Null
    /\ thrown' = Null /\ result' = Null /\ event' = "dismiss"
    /\ UNCHANGED << static, extractedText, isAnalyzing, capturedImageUri,
                    analysisComplete, viewMode, cycles, fetchCalls >>

\* The capture button: captureAndAnalyze up to its first await.
PressCapture ==
    /\ NoDialog
    /\ CaptureControlShown
    /\ Len(cycles) < MaxInFlight
    /\ thrown' = Null /\ result' = Null
    /\ IF CaptureControlEnabled /\ CameraMounted
       THEN /\ isAnalyzing' = TRUE
            /\ cycles' = Append(cycles, At("takePicture", 0))
            /\ event' = "capture"
       ELSE /\ UNCHANGED << isAnalyzing, cycles >>
            /\ event' = "ignoredPress"
    /\ UNCHANGED << static, extractedText, capturedImageUri, analysisComplete,
                    viewMode, alert, fetchCalls >>

CaptureFailedStaysBusy(i) ==
    /\ alert' = CaptureFailedAlert
    /\ cycles' = Without(i)
    /\ thrown' = Null /\ result' = Null /\ event' = "captureFailure"
    /\ UNCHANGED << static, extractedText, isAnalyzing, capturedImageUri,
                    analysisComplete, viewMode, fetchCalls >>

\* No uri in the photo, or takePictureAsync rejected: the alert and
\* setIsAnalyzing(false).
CaptureFailed(i) ==
    /\ alert' = CaptureFailedAlert
    /\ isAnalyzing' = FALSE
    /\ cycles' = Without(i)
    /\ thrown' = Null /\ result' = Null /\ event' = "captureFailure"
    /\ UNCHANGED << static, extractedText, capturedImageUri, analysisComplete,
                    viewMode, fetchCalls >>

\* takePictureAsync settles; with a uri, analyzeImage runs up to its await.
TakePictureSettles(i) ==
    /\ cycles[i].at = "takePicture"
    /\ \/ \E uri \in PhotoUris :
            /\ capturedImageUri' = uri
            /\ isAnalyzing' = TRUE
            /\ cycles' = Moved(i, At("manipulate", 0))
            /\ thrown' = Null /\ result' = Null /\ event' = "captured"
            /\ UNCHANGED << static, extractedText, analysisComplete, viewMode,
                            alert, fetchCalls >>
       \/ CaptureFailed(i)

\* finally { setIsAnalyzing(false); setAnalysisComplete(true) }
Finally ==
    /\ isAnalyzing' = FALSE
    /\ analysisComplete' = TRUE

\* The outer catch of analyzeImage.
PrepFailed(i) ==
    /\ alert' = ProcessFailedAlert
    /\ Finally
    /\ cycles' = Without(i)
    /\ thrown' = Null /\ result' = Null /\ event' = "prepFailure"
    /\ UNCHANGED << static, extractedText, capturedImageUri, viewMode, fetchCalls >>

FallbackResultNone == Null

\* getDemoText(screenWidth, screenHeight)
FallbackResult == getDemoText(screenWidth, screenHeight)

\* The inner catch of analyzeImage, then the finally.
ApiFailed(i, apiError, calls) ==
    /\ alert' = IF Includes(apiError.message, "not configured")
                THEN SetupAlert
                ELSE ErrorAlert(apiError)
    /\ extractedText' = FallbackResult
    /\ Finally
    /\ cycles' = Without(i)
    /\ fetchCalls' = calls
    /\ thrown' = apiError /\ event' = "ocrFailure"
    /\ UNCHANGED << static, capturedImageUri, viewMode >>

\* setExtractedText(textResult), then the finally.
ApiSucceeded(i, textResult) ==
    /\ extractedText' = textResult
    /\ Finally
    /\ cycles' = Without(i)
    /\ thrown' = Null /\ event' = "ocrSuccess"
    /\ UNCHANGED << static, capturedImageUri, viewMode, alert, fetchCalls >>

\* manipulateAsync settles; with base64 data, detectText runs up to fetch.
ManipulateSettles(i) ==
    /\ cycles[i].at = "manipulate"
    /\ \/ PrepFailed(i)
       \/ IF ApiKeyMissing(apiKey)
          THEN ApiFailed(i, NotConfiguredError, 0) /\ result' = Null
          ELSE /\ fetchCalls' = 1
               /\ cycles' = Moved(i, At("fetch", 0))
               /\ thrown' = Null /\ result' = Null /\ event' = "fetch"
               /\ UNCHANGED << static, extractedText, isAnalyzing, capturedImageUri,
                               analysisComplete, viewMode, alert >>

\* fetch settles: rejected, or a response whose body is still to be read.
FetchSettles(i) ==
    /\ cycles[i].at = "fetch"
    /\ \/ ApiFailed(i, NetworkError, fetchCalls) /\ result' = Null
       \/ \E status \in Statuses :
            /\ cycles' = Moved(i, At(IF Ok(status) THEN "json" ELSE "text", status))
            /\ thrown' = Null /\ result' = Null /\ event' = "response"
            /\ UNCHANGED << static, extractedText, isAnalyzing, capturedImageUri,
                            analysisComplete, viewMode, alert, fetchCalls >>

\* response.text() of a non-ok response settles.
TextSettles(i) ==
    /\ cycles[i].at = "text"
    /\ result' = Null
    /\ \/ ApiFailed(i, NetworkError, fetchCalls)
       \/ \E errorText \in Bodies :
            ApiFailed(i, RequestFailedError(cycles[i].status, errorText), fetchCalls)

\* response.json() of an ok response settles.
JsonSettles(i) ==
    /\ cycles[i].at = "json"
    /\ \/ ApiFailed(i, JsonParseError, fetchCalls) /\ result' = Null
       \/ /\ result' \in Responses
          /\ LET parsed == ParseResult(result', screenWidth, screenHeight)
             IN  IF parsed.ok
                 THEN ApiSucceeded(i, parsed.value)
                 ELSE ApiFailed(i, parsed.error, fetchCalls)

Settles ==
    \E i \in 1..Len(cycles) :
        \/ TakePictureSettles(i)
        \/ ManipulateSettles(i)
        \/ FetchSettles(i)
        \/ TextSettles(i)
        \/ JsonSettles(i)

Next ==
    \/ PressCapture
    \/ PressClose
    \/ \E mode \in { "image", "text" } : PressToggle(mode)
    \/ DismissAlert
    \/ \E i \in 1..Len(cycles) : TakePictureSettles(i)
    \/ \E i \in 1..Len(cycles) : ManipulateSettles(i)
    \/ \E i \in 1..Len(cycles) : FetchSettles(i)
    \/ \E i \in 1..Len(cycles) : TextSettles(i)
    \/ \E i \in 1..Len(cycles) : JsonSettles(i)

Spec == Init /\ [][Next]_vars

\* Every awaited promise settles.
FairSpec == Spec /\ WF_vars(Settles)

----------------------------------------------------------------------------
(* The functions of visionApi.ts alone: detectText from the parsed body on, *)
(* and getDemoText, each applied once to inputs drawn from VertexLists and *)
(* 0..MaxDim.                                                              *)

PureInit ==
    /\ apiKey \in ApiKeys \ { "" }
    /\ screenWidth \in 0..MaxDim
    /\ screenHeight \in 0..MaxDim
    /\ extractedText = Null
    /\ isAnalyzing = FALSE
    /\ capturedImageUri = NullUri
    /\ analysisComplete = FALSE
    /\ viewMode = "image"
    /\ cycles = << >>
    /\ alert = Null
    /\ fetchCalls = 0
    /\ thrown = Null
    /\ result = Null
    /\ event = "mount"

DetectTextApplied ==
    /\ event = "mount"
    /\ result' \in MapperResponses
    /\ extractedText' = ParseResult(result', screenWidth, screenHeight).value
    /\ thrown' = Null /\ event' = "ocrSuccess"
    /\ UNCHANGED << static, isAnalyzing, capturedImageUri, analysisComplete,
                    viewMode, cycles, alert, fetchCalls >>

GetDemoTextApplied ==
    /\ event = "mount"
    /\ extractedText' = getDemoText(screenWidth, screenHeight)
    /\ thrown' = Null /\ result' = Null /\ event' = "demo"
    /\ UNCHANGED << static, isAnalyzing, capturedImageUri, analysisComplete,
                    viewMode, cycles, alert, fetchCalls >>

PureNext ==
    \/ DetectTextApplied
    \/ GetDemoTextApplied

PureSpec == PureInit /\ [][PureNext]_vars

----------------------------------------------------------------------------
(* Properties *)

\* An ExtractedText is present and shown, with the reset control.
Displaying == analysisComplete /\ extractedText # Null

\* The capture control is rendered and takes a press.
CaptureAvailable == ~analysisComplete /\ ~isAnalyzing

ResetAvailable == analysisComplete

\* C1: without a configured credential a detectText call fails with the
\* ConfigurationMissing error and has issued no fetch call; no fetch call is
\* ever issued by a process that has no credential.
C1_NoFetchWithoutKey ==
    apiKey = "" =>
        /\ fetchCalls = 0
        /\ \A i \in 1..Len(cycles) : cycles[i].at \notin { "fetch", "text", "json" }
        /\ event = "ocrFailure" => thrown.kind = "ConfigurationMissing"

C1_Witness ==
    /\ apiKey = ""
    /\ event = "ocrFailure"
    /\ thrown = NotConfiguredError
    /\ fetchCalls = 0

\* C2: whatever detectText throws, the step that handles it ends the cycle
\* in Displaying with the demo generator's output as the current result.
C2_FailureFallsBackToDemo ==
    event = "ocrFailure" =>
        /\ thrown # Null
        /\ extractedText = getDemoText(screenWidth, screenHeight)
        /\ analysisComplete
        /\ ~isAnalyzing
        /\ cycles = << >>

C2_Witness ==
    /\ event = "ocrFailure"
    /\ thrown.kind = "Other"
    /\ Displaying
    /\ extractedText.fullText = DemoFullText

\* C3 (as stated): after a detectText failure the setup-guidance dialog is
\* shown exactly when the failure is ConfigurationMissing, and the generic
\* error dialog for every other failure.
C3_SetupGuidanceIffConfigurationMissing ==
    event = "ocrFailure" =>
        IF thrown.kind = "ConfigurationMissing"
        THEN alert = SetupAlert
        ELSE alert = ErrorAlert(thrown)

\* C4 (as stated): after an image-preparation failure there is no current
\* result and the capture control is shown and enabled again.
C4_PrepFailureReturnsToIdle ==
    event = "prepFailure" =>
        /\ extractedText = Null
        /\ ~analysisComplete
        /\ ~isAnalyzing

\* C5: at most one captureAndAnalyze call is in flight, and while one is the
\* capture control is disabled.
C5_OneCycleInFlight ==
    /\ Len(cycles) <= 1
    /\ cycles # << >> => isAnalyzing /\ ~analysisComplete

C5_Witness ==
    /\ event = "ignoredPress"
    /\ Len(cycles) = 1
    /\ cycles[1].at = "fetch"

\* C6: every step that leaves Displaying is the reset, and it leaves no
\* current result, no captured-image reference, and the capture control
\* shown and enabled.
C6_ResetIsOnlyExit ==
    [][ (Displaying /\ ~Displaying') =>
            /\ event' = "close"
            /\ extractedText' = Null
            /\ capturedImageUri' = NullUri
            /\ ~analysisComplete'
            /\ ~isAnalyzing' ]_vars

C6_Witness ==
    /\ event = "close"
    /\ fetchCalls = 1
    /\ extractedText = Null
    /\ capturedImageUri = NullUri
    /\ CaptureAvailable

\* C7: if every awaited promise settles, then again and again no cycle is in
\* flight, isAnalyzing is false and the capture or the reset control is
\* available.
C7_CycleCompletes ==
    []<>( /\ cycles = << >>
          /\ ~isAnalyzing
          /\ (CaptureAvailable \/ ResetAvailable) )

C7_Witness ==
    /\ event = "captureFailure"
    /\ cycles = << >>
    /\ ~isAnalyzing
    /\ CaptureAvailable

\* C8 (as stated): an ok response whose body has an error object makes
\* detectText fail with a ProviderError that carries the provider's code and
\* its message.
C8_ProviderErrorCarriesCodeAndMessage ==
    (event = "ocrFailure" /\ result # Null /\ Has(result, "error")) =>
        /\ thrown.kind = "ProviderError"
        /\ Includes(thrown.message, result.error.message)
        /\ Includes(thrown.message, ToString(result.error.code))

\* C9: a successful response with n >= 1 textAnnotations yields n - 1 words,
\* the i-th with the description of annotation i + 1.
C9_WordsFollowAnnotations ==
    (event = "ocrSuccess" /\ Has(result, "textAnnotations")
        /\ Len(result.textAnnotations) >= 1) =>
        LET ta == result.textAnnotations
            words == extractedText.words
        IN  /\ Len(words) = Len(ta) - 1
            /\ \A i \in 1..(Len(ta) - 1) : words[i].text = ta[i + 1].description

C9_Witness ==
    /\ event = "ocrSuccess"
    /\ Has(result, "textAnnotations")
    /\ Len(result.textAnnotations) = 3
    /\ result.textAnnotations[2].description # result.textAnnotations[3].description
    /\ Len(extractedText.words) = 2

\* C10 (as stated): when a successful response has fullTextAnnotation.text,
\* fullText equals it, the empty string included.
C10_FullTextIsFullTextAnnotation ==
    (event = "ocrSuccess" /\ Has(result, "fullTextAnnotation")) =>
        extractedText.fullText = result.fullTextAnnotation.text

\* C11: when a successful response has no fullTextAnnotation, fullText is the
\* description of the first textAnnotation if there is one; with no
\* textAnnotations either, fullText is the empty string and words is empty.
C11_FullTextFallsBack ==
    (event = "ocrSuccess" /\ ~Has(result, "fullTextAnnotation")) =>
        IF Has(result, "textAnnotations") /\ result.textAnnotations # << >>
        THEN extractedText.fullText = result.textAnnotations[1].description
        ELSE extractedText.fullText = "" /\ extractedText.words = << >>

C11_Witness ==
    /\ event = "ocrSuccess"
    /\ ~Has(result, "fullTextAnnotation")
    /\ Has(result, "textAnnotations")
    /\ Len(result.textAnnotations) = 2
    /\ result.textAnnotations[1].description = "ALL TEXT"
    /\ result.textAnnotations[2].description = "Hello"
    /\ extractedText.fullText = "ALL TEXT"

\* C12: the mapper returns null for fewer than 4 vertices; for 4 or more it
\* returns x = min(xs), y = min(ys), width = max(xs) - min(xs) >= 0 and
\* height = max(ys) - min(ys) >= 0, an omitted coordinate counting as 0, and
\* the same box for every pair of screen dimensions.
C12_MapperBox ==
    event = "ocrSuccess" =>
        LET vs == result.textAnnotations[2].boundingPoly.vertices
            xs == { IF "x" \in DOMAIN vs[i] THEN vs[i].x ELSE 0 : i \in 1..Len(vs) }
            ys == { IF "y" \in DOMAIN vs[i] THEN vs[i].y ELSE 0 : i \in 1..Len(vs) }
            minOf(S) == CHOOSE m \in S : \A n \in S : m <= n
            maxOf(S) == CHOOSE m \in S : \A n \in S : m >= n
            box == convertToScreenCoordinates(vs, screenWidth, screenHeight)
        IN  IF Len(vs) < 4
            THEN \A w, h \in 0..MaxDim : convertToScreenCoordinates(vs, w, h) = Null
            ELSE /\ box = [ x |-> minOf(xs), y |-> minOf(ys),
                            width |-> maxOf(xs) - minOf(xs),
                            height |-> maxOf(ys) - minOf(ys) ]
                 /\ box.width >= 0
                 /\ box.height >= 0
                 /\ \A w, h \in 0..MaxDim : convertToScreenCoordinates(vs, w, h) = box

C12_Witness ==
    /\ event = "ocrSuccess"
    /\ result.textAnnotations[2].boundingPoly.vertices
         = << V(3, -2), [y |-> 1], V(-1, 2), [x |-> 2] >>
    /\ extractedText.words[1].x = Hundredths(-1)
    /\ extractedText.words[1].y = Hundredths(-2)
    /\ extractedText.words[1].width = Hundredths(4)
    /\ extractedText.words[1].height = Hundredths(4)

\* C13 (as stated): every Word of every ExtractedText, from detectText or
\* from getDemoText, has x, y, width and height non-negative.
C13_WordBoxesNonNegative ==
    extractedText # Null =>
        \A i \in 1..Len(extractedText.words) :
            /\ extractedText.words[i].x >= 0
            /\ extractedText.words[i].y >= 0
            /\ extractedText.words[i].width >= 0
            /\ extractedText.words[i].height >= 0

\* C14: getDemoText(2w, h) is getDemoText(w, h) with the x and the width of
\* each of the three words doubled and everything else the same.
C14_DemoScalesWithWidth ==
    event = "demo" =>
        LET once == extractedText
            twice == getDemoText(2 * screenWidth, screenHeight)
        IN  /\ twice.fullText = once.fullText
            /\ Len(once.words) = 3
            /\ Len(twice.words) = 3
            /\ \A i \in 1..3 :
                /\ twice.words[i].x = 2 * once.words[i].x
                /\ twice.words[i].width = 2 * once.words[i].width
                /\ twice.words[i].y = once.words[i].y
                /\ twice.words[i].height = once.words[i].height
                /\ twice.words[i].text = once.words[i].text
                /\ twice.words[i].id = once.words[i].id
                /\ twice.words[i].confidence = once.words[i].confidence

C14_Witness ==
    /\ event = "demo"
    /\ screenWidth = 3
    /\ screenHeight = 2
    /\ extractedText.words[2].x = 105
    /\ extractedText.words[2].width = 30

\* C15: a word annotation whose polygon has fewer than 4 vertices still
\* yields its Word, at its position, with x, y, width and height 0.
C15_UnmappedWordKept ==
    (event = "ocrSuccess" /\ Has(result, "textAnnotations")) =>
        LET ta == result.textAnnotations
            words == extractedText.words
        IN  \A i \in 2..Len(ta) :
                Len(ta[i].boundingPoly.vertices) < 4 =>
                    /\ Len(words) >= i - 1
                    /\ words[i - 1].text = ta[i].description
                    /\ words[i - 1].id = "word-" \o ToString(i - 2)
                    /\ words[i - 1].x = 0
                    /\ words[i - 1].y = 0
                    /\ words[i - 1].width = 0
                    /\ words[i - 1].height = 0

C15_Witness ==
    /\ event = "ocrSuccess"
    /\ Has(result, "textAnnotations")
    /\ Len(result.textAnnotations) = 3
    /\ Len(result.textAnnotations[2].boundingPoly.vertices) = 3
    /\ Len(result.textAnnotations[3].boundingPoly.vertices) = 4
    /\ Len(extractedText.words) = 2
    /\ extractedText.words[1].width = 0
    /\ extractedText.words[2].width = Hundredths(10)

\* A cycle is in progress.
InProgress == isAnalyzing /\ ~analysisComplete

\* C16: while a cycle is in progress extractedText is null and viewMode is
\* 'image', and no step that leaves the cycle in progress changes either.
C16_SlotsWrittenAfterCycle ==
    /\ [](InProgress => extractedText = Null /\ viewMode = "image")
    /\ [][ (InProgress /\ InProgress') => UNCHANGED << extractedText, viewMode >> ]_vars

C16_Witness ==
    /\ InProgress
    /\ Len(cycles) = 1
    /\ cycles[1].at = "json"
    /\ fetchCalls = 1
    /\ extractedText = Null
    /\ viewMode = "image"

====
